---- MODULE Spec2Model ----
(***************************************************************************)
(* A model of the command-line scripts of the AI-reply repository:         *)
(*   embeddings/3_split_to_chunks.py, 4_chunking.py   (token chunker)      *)
(*   embeddings/2_deduplicate_sentences.py            (dedup TUI)          *)
(*   embeddings/4_create_embedding_to_chromaDB.py,                         *)
(*              6_chromaDB.py                         (vector store load)  *)
(*   embeddings/7_embeddings.py                       (vector store query) *)
(*   chatbot/chatgpt_api.py, chatgpt_api.py           (chat query)         *)
(*   gmail/folder_subscribe.py                        (Pub/Sub callback,   *)
(*                                                     watch set-up)       *)
(*   gmail/main.py                                    (draft replies)      *)
(*   gmail/gmail_auth.py, gmail_auth.py               (credentials)        *)
(*   gmail/read.py, read.py                           (mail listing)       *)
(* Each script is a sequential program; each has its own specification     *)
(* (SpecChunk, SpecDedup, ...) over its own variables, the variables of    *)
(* the other scripts being left at their idle values.                      *)
(***************************************************************************)
EXTENDS Integers, Sequences, FiniteSets, TLC

VARIABLES
    \* ---- chunk_text_with_overlap (3_split_to_chunks.py / 4_chunking.py)
    text,           \* the input text, a sequence of characters
    chunk_size,     \* --chunk-size
    overlap,        \* --overlap
    tokens,         \* encoding.encode(text)
    start,          \* the window's start index (0-based)
    chunks,         \* the list of decoded chunk texts being returned
    chunk_log,      \* one record per chunk: the values of the logging line
    chunk_pc,       \* "idle" | "loop" | "done"
    \* ---- 2_deduplicate_sentences.py
    sentences,          \* sent_tokenize(text): the input sentences, in order
    screen_size,        \* args.chunk_size: duplicates per TUI screen
    duplicates,         \* main: the sorted list of <<sentence, freq>>
    screens,            \* curses_main: chunks = list(chunked_list(...))
    cidx,               \* curses_main: the screen being shown (1-based)
    toggles,            \* curses_select_chunk: the marks of the screen shown
    selected_idx,       \* curses_select_chunk: the highlighted row (0-based)
    quit_early,         \* curses_select_chunk: 'q' was pressed
    confirmed,          \* history: the sentences marked on each screen confirmed with Enter
    dedup_sentences,    \* run_curses_dedup: the set returned to main
    final_sentences,    \* main: the rebuilt list that is saved
    dedup_pc,           \* "idle" | "start" | "tui" | "rebuild" | "saved" | "nodup"
    \* ---- store_in_chromadb (4_create_embedding_to_chromaDB.py / 6_chromaDB.py)
    collection,         \* the ChromaDB collection: a function from ids to entries
    prior_collection,   \* history: the collection as it was before the call
    embeddings,         \* the argument: a list of {document, embedding, metadata}
    clear_collection,   \* the argument (CLEAR_DB / CLEAR_COLLECTION)
    store_pc,           \* "idle" | "call" | "cleared" | "returned" | "raised"
    \* ---- query_chroma_db (7_embeddings.py)
    top_n,              \* the argument top_n
    query_embedding,    \* compute_embedding(api_key, query)
    results,            \* collection.query(...): documents, metadatas, embeddings
    loop_i,             \* the index i of `for i, doc in enumerate(docs)`
    candidate_docs,     \* the list built by the loop, then sorted
    query_result,       \* the returned dictionary
    query_pc,           \* "idle" | "call" | "chroma" | "loop" | "returned" | "raised"
    \* ---- chatbot/chatgpt_api.py main
    user_input,         \* args.user_input
    system_input,       \* args.system_input: an optional string
    use_embeddings,     \* args.embeddings
    context,            \* main: context
    messages,           \* main: messages
    stdout,             \* what print has written: the JSON objects, in order
    calls,              \* history: the remote calls made, in order
    chat_pc,            \* "idle" | "start" | "retrieve" | "chroma" | "build" | "chat" | "done" | "raised"
    \* ---- gmail/folder_subscribe.py: pubsub_callback, one invocation per message
    payload,            \* message.data of each message
    cb_pc,              \* each invocation: "pending" | "try" | "history" | "finally" | "returned" | "escaped"
    exc,                \* each invocation: the exception in flight, or "none"
    acks,               \* each message: the number of message.ack() calls
    events,             \* history: what each invocation did, in order
    \* ---- gmail/main.py: process_pubsub_message, process_new_emails
    mail_data,          \* message.data of the message handed to the callback
    mail_pc,            \* "idle" | "received" | "acked" | "try" | "fetch" | "loop" | "returned" | "escaped"
    mail_events,        \* history: what the invocation did, in order
    mail_acks,          \* the number of message.ack() calls
    new_msgs,           \* process_new_emails: new_msgs
    msg_idx,            \* process_new_emails: the position of msg in new_msgs (1-based)
    draft_calls,        \* history: the arguments of each create_draft_reply call
    mail_exc,           \* the exception in flight or handled last, or "none"
    \* ---- gmail/folder_subscribe.py: main
    credentials_exist,  \* os.path.exists(CREDENTIALS_PATH)
    label_arg,          \* args.label
    gmail_labels,       \* get_label_id: results.get("labels", [])
    gmail_service,      \* the module-level global, None until main sets it
    service_writes,     \* history: the number of assignments to gmail_service
    label_id,           \* main: label_id
    watch_result,       \* history: "none" | "ok" | "failed"
    sub_events,         \* history: the steps main has started, in order
    exit_status,        \* the process's exit status, -1 while it runs
    sub_pc,             \* "idle" | "start" | "auth" | "label" | "watch" | "listen" | "listening" | "stopped" | "exited"
    \* ---- gmail/gmail_auth.py, gmail_auth.py: get_credentials
    token_exists,       \* os.path.exists(token_file)
    token_file,         \* what the token file holds (what pickle.load returns)
    creds,              \* get_credentials: creds
    auth_events,        \* history: "load" | "refresh" | "flow" | "write", in order
    auth_result,        \* the returned credentials, NoCreds before the return
    auth_calls,         \* the number of get_credentials calls so far
    token_before,       \* history: what the token file held when the call began
    auth_pc,            \* "idle" | "start" | "load" | "check" | "refresh" | "flow" | "save" | "return" | "returned" | "raised"
    \* ---- gmail/read.py, read.py: list_filtered_emails
    pages,              \* the listing: the number of messages of each result page
    page_no,            \* the page `response` holds (1-based), 0 before the first call
    page_msgs,          \* list_filtered_emails: messages
    msg_pos,            \* the position of msg in messages (1-based)
    emails,             \* list_filtered_emails: emails
    failed,             \* history: the ids whose detail retrieval raised
    list_calls,         \* history: the remote calls made, in order
    list_pc             \* "idle" | "start" | "while" | "for" | "token" | "returned" | "raised"

chunkVars == <<text, chunk_size, overlap, tokens, start, chunks, chunk_log, chunk_pc>>

dedupVars == <<sentences, screen_size, duplicates, screens, cidx, toggles,
               selected_idx, quit_early, confirmed, dedup_sentences,
               final_sentences, dedup_pc>>

storeVars == <<collection, prior_collection, embeddings, clear_collection, store_pc>>

queryVars == <<top_n, query_embedding, results, loop_i, candidate_docs,
               query_result, query_pc>>

chatVars == <<user_input, system_input, use_embeddings, context, messages,
              stdout, calls, chat_pc>>

pubsubVars == <<payload, cb_pc, exc, acks, events>>

mailVars == <<mail_data, mail_pc, mail_events, mail_acks, new_msgs, msg_idx,
              draft_calls, mail_exc>>

\* The scripts of the gmail directory other than the Pub/Sub callback.
subVars == <<credentials_exist, label_arg, gmail_labels, gmail_service,
             service_writes, label_id, watch_result, sub_events, exit_status,
             sub_pc>>

authVars == <<token_exists, token_file, creds, auth_events, auth_result,
              auth_calls, token_before, auth_pc>>

listVars == <<pages, page_no, page_msgs, msg_pos, emails, failed, list_calls,
              list_pc>>

gmailVars == <<mailVars, subVars, authVars, listVars>>

vars == <<chunkVars, dedupVars, storeVars, queryVars, chatVars, pubsubVars, gmailVars>>

\* What each script leaves alone: the variables of the other scripts.
chunkOthers == <<dedupVars, storeVars, queryVars, chatVars, pubsubVars, gmailVars>>
dedupOthers == <<chunkVars, storeVars, queryVars, chatVars, pubsubVars, gmailVars>>
storeOthers == <<chunkVars, dedupVars, queryVars, chatVars, pubsubVars, gmailVars>>
queryOthers == <<chunkVars, dedupVars, storeVars, chatVars, pubsubVars, gmailVars>>
chatOthers == <<chunkVars, dedupVars, storeVars, queryVars, pubsubVars, gmailVars>>
pubsubOthers == <<chunkVars, dedupVars, storeVars, queryVars, chatVars, gmailVars>>
embedVars == <<chunkVars, dedupVars, storeVars, queryVars, chatVars>>
mailOthers == <<embedVars, pubsubVars, subVars, authVars, listVars>>
subOthers == <<embedVars, pubsubVars, mailVars, authVars, listVars>>
authOthers == <<embedVars, pubsubVars, mailVars, subVars, listVars>>
listOthers == <<embedVars, pubsubVars, mailVars, subVars, authVars>>

(***************************************************************************)
(* Bounds of the model.                                                    *)
(***************************************************************************)
MaxTextLen == 5
MaxChunkSize == 3
MaxSentences == 7
MaxScreenSize == 2
MaxEmbeddings == 2
MaxTopN == 2
MaxResults == 3
MaxMessages == 2
MaxMsgs == 2
MaxCalls == 2
MaxPages == 2
MaxPageSize == 2

(***************************************************************************)
(* Helpers shared by the scripts.                                          *)
(***************************************************************************)
Min(a, b) == IF a <= b THEN a ELSE b

\* Python's s[lo:hi] for 0 <= lo and 0 <= hi: clipped at the end of s.
PySlice(s, lo, hi) == SubSeq(s, lo + 1, Min(hi, Len(s)))

\* All sequences over S of length 0..n.
SeqsUpTo(S, n) == UNION {[1..k -> S] : k \in 0..n}

(***************************************************************************)
(* The tokenizer (tiktoken), reduced to a two-letter alphabet with one     *)
(* merged token: token 1 is "a", token 2 is "b", token 3 is "ab".          *)
(* encode merges greedily, decode concatenates the tokens' texts.          *)
(***************************************************************************)
Chars == {"a", "b"}

TokenText(t) == CASE t = 1 -> <<"a">>
                  [] t = 2 -> <<"b">>
                  [] OTHER -> <<"a", "b">>

RECURSIVE Encode(_)
Encode(txt) ==
    IF txt = <<>> THEN <<>>
    ELSE IF Len(txt) >= 2 /\ txt[1] = "a" /\ txt[2] = "b"
         THEN <<3>> \o Encode(SubSeq(txt, 3, Len(txt)))
         ELSE <<IF txt[1] = "a" THEN 1 ELSE 2>> \o Encode(Tail(txt))

RECURSIVE Decode(_)
Decode(toks) ==
    IF toks = <<>> THEN <<>> ELSE TokenText(Head(toks)) \o Decode(Tail(toks))

(***************************************************************************)
(* chunk_text_with_overlap                                                 *)
(***************************************************************************)
\* chunk_tokens = tokens[start:end], end = start + chunk_size
ChunkTokensWide(toks, st, size) == PySlice(toks, st, st + size + 1)
ChunkTokens(toks, st, size) == PySlice(toks, st, st + size)

\* start += chunk_size - overlap
NextStartNoOverlap(st, size, ov) == st + size
NextStart(st, size, ov) == st + size - ov

ChunkIdle ==
    /\ text = <<>>
    /\ chunk_size = 1
    /\ overlap = 0
    /\ tokens = <<>>
    /\ start = 0
    /\ chunks = <<>>
    /\ chunk_log = <<>>
    /\ chunk_pc = "idle"

\* The call: any text, chunk_size >= 1 and 0 <= overlap < chunk_size.
ChunkInit ==
    /\ text \in SeqsUpTo(Chars, MaxTextLen)
    /\ chunk_size \in 1..MaxChunkSize
    /\ overlap \in 0..(chunk_size - 1)
    /\ tokens = Encode(text)
    /\ start = 0
    /\ chunks = <<>>
    /\ chunk_log = <<>>
    /\ chunk_pc = "loop"

\* One iteration of `while start < total_tokens`.
ChunkLoop ==
    /\ chunk_pc = "loop"
    /\ start < Len(tokens)
    /\ LET chunk_tokens == ChunkTokens(tokens, start, chunk_size)
       IN /\ chunks' = Append(chunks, Decode(chunk_tokens))
          /\ chunk_log' = Append(chunk_log,
                [start |-> start,
                 end |-> Min(start + chunk_size, Len(tokens)),
                 chunk_tokens |-> chunk_tokens])
    /\ start' = NextStart(start, chunk_size, overlap)
    /\ UNCHANGED <<text, chunk_size, overlap, tokens, chunk_pc>>
    /\ UNCHANGED chunkOthers

\* The loop's exit and `return chunks`.
ChunkReturn ==
    /\ chunk_pc = "loop"
    /\ ~(start < Len(tokens))
    /\ chunk_pc' = "done"
    /\ UNCHANGED <<text, chunk_size, overlap, tokens, start, chunks, chunk_log>>
    /\ UNCHANGED chunkOthers

ChunkNext == ChunkLoop \/ ChunkReturn

(***************************************************************************)
(* Claims about chunk_text_with_overlap (checked under SpecChunk).         *)
(***************************************************************************)
\* The token indices (0-based) covered by the k-th chunk.
ChunkRange(k) == (chunk_log[k].start)..(chunk_log[k].end - 1)

\* The k-th chunk is the decoded contiguous slice tokens[start:start+chunk_size].
ChunkIsSlice(k) ==
    LET st == chunk_log[k].start
        ct == chunk_log[k].chunk_tokens
    IN /\ Len(ct) = Min(chunk_size, Len(tokens) - st)
       /\ \A j \in 1..Len(ct) : ct[j] = tokens[st + j]
       /\ chunks[k] = Decode(ct)
       /\ Len(ct) >= 1
       /\ Len(ct) <= chunk_size

\* C1 (as amended): every chunk is a non-empty contiguous slice
\* tokens[start:start+chunk_size] of at most chunk_size tokens, and a chunk
\* has fewer than chunk_size tokens only if it ends at the end of the input.
C1_ChunksAreBoundedSlices ==
    /\ Len(chunks) = Len(chunk_log)
    /\ \A k \in 1..Len(chunks) :
          /\ ChunkIsSlice(k)
          /\ Len(chunk_log[k].chunk_tokens) < chunk_size
                => chunk_log[k].start + Len(chunk_log[k].chunk_tokens) = Len(tokens)

\* C1 as stated: in the returned list only the last chunk may have fewer
\* than chunk_size tokens.
C1_OnlyLastChunkShort ==
    chunk_pc = "done" =>
        /\ \A k \in 1..Len(chunks) : ChunkIsSlice(k)
        /\ \A k \in 1..(Len(chunks) - 1) :
              Len(chunk_log[k].chunk_tokens) = chunk_size

\* A finished run with overlap in which a chunk before the last one is short.
C1_Witness ==
    /\ chunk_pc = "done"
    /\ overlap >= 1
    /\ Len(chunks) >= 3
    /\ Len(chunk_log[Len(chunks) - 1].chunk_tokens) < chunk_size
    /\ Len(chunk_log[1].chunk_tokens) = chunk_size

\* C2: the k-th chunk (k = 0, 1, ...) starts at token k*(chunk_size - overlap);
\* a chunk begins `overlap` tokens before the end of the preceding window,
\* and consecutive chunks share `overlap` tokens, or fewer only when the
\* input ends inside the preceding window.
C2_ChunkStartsAndOverlap ==
    /\ \A k \in 1..Len(chunk_log) :
          chunk_log[k].start = (k - 1) * (chunk_size - overlap)
    /\ \A k \in 1..(Len(chunk_log) - 1) :
          LET shared == Cardinality(ChunkRange(k) \cap ChunkRange(k + 1))
          IN /\ chunk_log[k + 1].start
                   = chunk_log[k].start + chunk_size - overlap
             /\ shared <= overlap
             /\ shared < overlap
                   => Len(tokens) < chunk_log[k].start + chunk_size

\* A finished run of three or more chunks, one pair sharing `overlap`
\* tokens and the last pair fewer.
C2_Witness ==
    /\ chunk_pc = "done"
    /\ overlap = 2
    /\ Len(chunk_log) >= 3
    /\ Cardinality(ChunkRange(1) \cap ChunkRange(2)) = overlap
    /\ Cardinality(ChunkRange(Len(chunk_log) - 1) \cap ChunkRange(Len(chunk_log)))
          < overlap

(***************************************************************************)
(* 2_deduplicate_sentences.py                                              *)
(***************************************************************************)
SentenceIds == {"s1", "s2", "s3"}

\* Counter(sentences)[s]
Count(seq, s) == Cardinality({i \in 1..Len(seq) : seq[i] = s})

\* The keys of Counter(sentences), in insertion order: each distinct
\* sentence once, ordered by its first occurrence.
RECURSIVE CounterKeys(_)
CounterKeys(seq) ==
    IF seq = <<>> THEN <<>>
    ELSE LET rest == CounterKeys(SubSeq(seq, 1, Len(seq) - 1))
             last == seq[Len(seq)]
         IN IF \E i \in 1..Len(rest) : rest[i] = last
            THEN rest ELSE Append(rest, last)

\* [(s, c) for s, c in counts.items() if c > 1]
RECURSIVE DuplicatePairs(_, _)
DuplicatePairs(keys, seq) ==
    IF keys = <<>> THEN <<>>
    ELSE LET c == Count(seq, Head(keys))
         IN (IF c > 1 THEN <<<<Head(keys), c>>>> ELSE <<>>)
            \o DuplicatePairs(Tail(keys), seq)

\* list.sort(key=lambda x: x[1], reverse=True): stable, descending frequency.
\* x is inserted behind every element whose frequency is >= its own.
InsertByFreq(sorted, x) ==
    LET p == Cardinality({i \in 1..Len(sorted) : sorted[i][2] >= x[2]})
    IN SubSeq(sorted, 1, p) \o <<x>> \o SubSeq(sorted, p + 1, Len(sorted))

RECURSIVE SortByFreqDesc(_)
SortByFreqDesc(lst) ==
    IF lst = <<>> THEN <<>>
    ELSE InsertByFreq(SortByFreqDesc(SubSeq(lst, 1, Len(lst) - 1)), lst[Len(lst)])

\* chunked_list(lst, n) for n >= 1: lst[i:i+n] for i in range(0, len(lst), n)
ChunkedListOverlapping(lst, n) ==
    [k \in 1..((Len(lst) + n - 1) \div n) |-> PySlice(lst, (k - 1) * n, (k - 1) * n + n + 1)]
ChunkedList(lst, n) ==
    [k \in 1..((Len(lst) + n - 1) \div n) |-> PySlice(lst, (k - 1) * n, (k - 1) * n + n)]

\* toggled_indices, as the sentences they index: chunk[idx][0] for the marked rows
ToggledSentences(chunk, tg) == {chunk[i][1] : i \in {j \in 1..Len(chunk) : tg[j]}}

\* curses_main: what dedup_sentences is after one curses_select_chunk call
RecordedIgnoringQuit(quit, chunk, tg, dedup) == dedup \cup ToggledSentences(chunk, tg)
Recorded(quit, chunk, tg, dedup) ==
    IF quit THEN dedup ELSE dedup \cup ToggledSentences(chunk, tg)

\* main: the rebuild loop over the sentences, with its occurrence_tracker
RECURSIVE RebuildFrom(_, _, _, _)
RebuildFrom(seq, i, dedup_set, occurrence_tracker) ==
    IF i > Len(seq) THEN <<>>
    ELSE LET sent == seq[i]
         IN IF sent \in dedup_set
            THEN IF sent \notin occurrence_tracker
                 THEN <<sent>> \o RebuildFrom(seq, i + 1, dedup_set,
                                             occurrence_tracker \cup {sent})
                 ELSE RebuildFrom(seq, i + 1, dedup_set, occurrence_tracker)
            ELSE <<sent>> \o RebuildFrom(seq, i + 1, dedup_set, occurrence_tracker)

RebuildDedupAll(seq, dedup_set) == RebuildFrom(seq, 1, SentenceIds, {})
Rebuild(seq, dedup_set) == RebuildFrom(seq, 1, dedup_set, {})

NoMarks(chunk) == [i \in 1..Len(chunk) |-> FALSE]

DedupIdle ==
    /\ sentences = <<>>
    /\ screen_size = 1
    /\ duplicates = <<>>
    /\ screens = <<>>
    /\ cidx = 0
    /\ toggles = <<>>
    /\ selected_idx = 0
    /\ quit_early = FALSE
    /\ confirmed = <<>>
    /\ dedup_sentences = {}
    /\ final_sentences = <<>>
    /\ dedup_pc = "idle"

\* The script is started on a file of sentences with --chunk-size >= 1.
DedupInit ==
    /\ sentences \in SeqsUpTo(SentenceIds, MaxSentences)
    /\ screen_size \in 1..MaxScreenSize
    /\ duplicates = <<>>
    /\ screens = <<>>
    /\ cidx = 0
    /\ toggles = <<>>
    /\ selected_idx = 0
    /\ quit_early = FALSE
    /\ confirmed = <<>>
    /\ dedup_sentences = {}
    /\ final_sentences = <<>>
    /\ dedup_pc = "start"

\* main up to the TUI: count, filter, sort; return when nothing is duplicated.
FindDuplicates ==
    /\ dedup_pc = "start"
    /\ LET dups == SortByFreqDesc(DuplicatePairs(CounterKeys(sentences), sentences))
       IN /\ duplicates' = dups
          /\ IF dups = <<>>
             THEN /\ dedup_pc' = "nodup"
                  /\ UNCHANGED <<screens, cidx, toggles>>
             ELSE /\ dedup_pc' = "tui"
                  /\ screens' = ChunkedList(dups, screen_size)
                  /\ cidx' = 1
                  /\ toggles' = NoMarks(ChunkedList(dups, screen_size)[1])
    /\ UNCHANGED <<sentences, screen_size, selected_idx, quit_early, confirmed,
                   dedup_sentences, final_sentences>>
    /\ UNCHANGED dedupOthers

KeyFrame == UNCHANGED <<sentences, screen_size, duplicates, screens, cidx,
                        quit_early, confirmed, dedup_sentences,
                        final_sentences, dedup_pc, dedupOthers>>

KeyUp ==
    /\ dedup_pc = "tui"
    /\ selected_idx' = IF selected_idx - 1 >= 0 THEN selected_idx - 1 ELSE 0
    /\ UNCHANGED toggles
    /\ KeyFrame

KeyDown ==
    /\ dedup_pc = "tui"
    /\ selected_idx' = Min(Len(screens[cidx]) - 1, selected_idx + 1)
    /\ UNCHANGED toggles
    /\ KeyFrame

KeySpace ==
    /\ dedup_pc = "tui"
    /\ toggles' = [toggles EXCEPT ![selected_idx + 1] = ~toggles[selected_idx + 1]]
    /\ UNCHANGED selected_idx
    /\ KeyFrame

KeyA ==
    /\ dedup_pc = "tui"
    /\ toggles' = IF \A i \in 1..Len(toggles) : toggles[i]
                  THEN [i \in 1..Len(toggles) |-> FALSE]
                  ELSE [i \in 1..Len(toggles) |-> TRUE]
    /\ UNCHANGED selected_idx
    /\ KeyFrame

\* Enter: curses_select_chunk returns (False, toggled); curses_main records
\* the marked sentences and shows the next screen (fresh toggles, selection
\* on the first row), or ends after the last screen.
KeyEnter ==
    /\ dedup_pc = "tui"
    /\ quit_early' = FALSE
    /\ dedup_sentences' = Recorded(FALSE, screens[cidx], toggles, dedup_sentences)
    /\ confirmed' = Append(confirmed, ToggledSentences(screens[cidx], toggles))
    /\ IF cidx < Len(screens)
       THEN /\ cidx' = cidx + 1
            /\ toggles' = NoMarks(screens[cidx + 1])
            /\ selected_idx' = 0
            /\ UNCHANGED dedup_pc
       ELSE /\ dedup_pc' = "rebuild"
            /\ UNCHANGED <<cidx, toggles, selected_idx>>
    /\ UNCHANGED <<sentences, screen_size, duplicates, screens, final_sentences>>
    /\ UNCHANGED dedupOthers

\* 'q': curses_select_chunk returns (True, toggled); curses_main returns.
KeyQ ==
    /\ dedup_pc = "tui"
    /\ quit_early' = TRUE
    /\ dedup_sentences' = Recorded(TRUE, screens[cidx], toggles, dedup_sentences)
    /\ dedup_pc' = "rebuild"
    /\ UNCHANGED <<cidx, toggles, selected_idx, confirmed>>
    /\ UNCHANGED <<sentences, screen_size, duplicates, screens, final_sentences>>
    /\ UNCHANGED dedupOthers

\* main after the TUI: rebuild the text and save it.
RebuildAndSave ==
    /\ dedup_pc = "rebuild"
    /\ final_sentences' = Rebuild(sentences, dedup_sentences)
    /\ dedup_pc' = "saved"
    /\ UNCHANGED <<sentences, screen_size, duplicates, screens, cidx, toggles,
                   selected_idx, quit_early, confirmed, dedup_sentences>>
    /\ UNCHANGED dedupOthers

DedupNext ==
    \/ FindDuplicates
    \/ KeyUp
    \/ KeyDown
    \/ KeySpace
    \/ KeyA
    \/ KeyEnter
    \/ KeyQ
    \/ RebuildAndSave

(***************************************************************************)
(* Claims about 2_deduplicate_sentences.py (checked under SpecDedup).      *)
(***************************************************************************)
\* The input positions that are kept when the sentences of `marked` are
\* deduplicated: every position of an unmarked sentence, and the first
\* position of a marked one.
KeptPositions(marked) ==
    {i \in 1..Len(sentences) :
        \/ sentences[i] \notin marked
        \/ \A j \in 1..(i - 1) : sentences[j] # sentences[i]}

\* out is the input restricted to the positions P, in input order.
IsRestriction(out, P) ==
    /\ Len(out) = Cardinality(P)
    /\ \A k \in 1..Len(out) :
          \E i \in P : /\ out[k] = sentences[i]
                       /\ Cardinality({j \in P : j < i}) = k - 1

\* C3: in the saved output every sentence marked for deduplication appears
\* exactly once, at the position of its first occurrence; every other
\* sentence keeps all its occurrences; the kept sentences are in input order.
C3_DedupOutput ==
    dedup_pc = "saved" =>
        /\ \A s \in dedup_sentences : Count(final_sentences, s) = 1
        /\ \A s \in SentenceIds \ dedup_sentences :
              Count(final_sentences, s) = Count(sentences, s)
        /\ IsRestriction(final_sentences, KeptPositions(dedup_sentences))

\* A saved output with a marked sentence that occurred three times, an
\* unmarked duplicate kept twice, and the marked one followed by others.
C3_Witness ==
    /\ dedup_pc = "saved"
    /\ \E s \in dedup_sentences : Count(sentences, s) = 3
    /\ \E s \in SentenceIds \ dedup_sentences : Count(final_sentences, s) = 2
    /\ Len(final_sentences) < Len(sentences)
    /\ final_sentences[1] \notin dedup_sentences

\* The sentences listed on screen j.
ScreenSentences(j) == {screens[j][i][1] : i \in 1..Len(screens[j])}

\* C4: once 'q' is pressed the selection ends: the dedup set is exactly what
\* the screens confirmed with Enter marked, and holds no sentence of the
\* screen shown when 'q' was pressed (toggled or not) nor of a later screen.
C4_QuitKeepsRest ==
    quit_early =>
        /\ dedup_pc \in {"rebuild", "saved"}
        /\ Len(confirmed) = cidx - 1
        /\ dedup_sentences = UNION {confirmed[j] : j \in 1..Len(confirmed)}
        /\ \A j \in 1..Len(confirmed) :
              confirmed[j] \subseteq ScreenSentences(j)
        /\ \A j \in cidx..Len(screens) :
              ScreenSentences(j) \cap dedup_sentences = {}

\* 'q' pressed on the second screen with a row toggled there, after the
\* first screen was confirmed with a mark; a third screen was never shown.
C4_Witness ==
    /\ quit_early
    /\ dedup_pc = "saved"
    /\ cidx = 2
    /\ Len(screens) = 3
    /\ \E i \in 1..Len(toggles) : toggles[i]
    /\ dedup_sentences # {}

\* The concatenation of the screens 1..j.
RECURSIVE ConcatScreens(_)
ConcatScreens(j) == IF j = 0 THEN <<>> ELSE ConcatScreens(j - 1) \o screens[j]

DocId(i) == <<"doc", i>>

\* The entries a list item can hold.
StoredItems ==
    {[document |-> "text A", embedding |-> "vector A", metadata |-> "meta A"],
     [document |-> "text B", embedding |-> "vector B", metadata |-> "meta B"]}

\* Ids a collection may hold before the call: ids of an earlier load, one of
\* them beyond the length of any list loaded here, and an id of another origin.
PriorIds == {DocId(0), DocId(MaxEmbeddings + 1), <<"other", 0>>}

\* All collections over the ids I with entries from StoredItems.
Collections(I) == UNION {[D -> StoredItems] : D \in SUBSET I}

EmptyCollection == [id \in {} |-> id]

\* Lines 210-214: existing = collection.get(); collection.delete(ids=existing["ids"])
KeptWithoutClear(coll, clear) == coll
ClearedCollection(coll, clear) == IF clear THEN EmptyCollection ELSE coll

\* Lines 217-225: ids doc_0 .. doc_{n-1} with the items in list order.
BulkRows(items) == [id \in {DocId(i) : i \in 0..(Len(items) - 1)} |-> items[id[2] + 1]]

\* collection.add: the rows are inserted; a row whose id is already in the
\* collection is left as it is.
CollectionAdd(coll, rows) ==
    [id \in DOMAIN coll \cup DOMAIN rows |->
        IF id \in DOMAIN coll THEN coll[id] ELSE rows[id]]

StoreIdle ==
    /\ collection = EmptyCollection
    /\ prior_collection = EmptyCollection
    /\ embeddings = <<>>
    /\ clear_collection = TRUE
    /\ store_pc = "idle"

StoreInit ==
    /\ collection \in Collections(PriorIds)
    /\ prior_collection = collection
    /\ embeddings \in SeqsUpTo(StoredItems, MaxEmbeddings)
    /\ clear_collection \in BOOLEAN
    /\ store_pc = "call"

\* `if not embeddings: return`
StoreNothing ==
    /\ store_pc = "call"
    /\ embeddings = <<>>
    /\ store_pc' = "returned"
    /\ UNCHANGED <<collection, prior_collection, embeddings, clear_collection>>
    /\ UNCHANGED storeOthers

\* Client, get_or_create_collection and the clearing of the collection.
StoreClear ==
    /\ store_pc = "call"
    /\ embeddings # <<>>
    /\ collection' = ClearedCollection(collection, clear_collection)
    /\ store_pc' = "cleared"
    /\ UNCHANGED <<prior_collection, embeddings, clear_collection>>
    /\ UNCHANGED storeOthers

\* The client, get_or_create_collection, get or delete raises.
StoreClearRaises ==
    /\ store_pc = "call"
    /\ embeddings # <<>>
    /\ store_pc' = "raised"
    /\ UNCHANGED <<collection, prior_collection, embeddings, clear_collection>>
    /\ UNCHANGED storeOthers

\* The bulk insertion, and the return.
StoreAdd ==
    /\ store_pc = "cleared"
    /\ collection' = CollectionAdd(collection, BulkRows(embeddings))
    /\ store_pc' = "returned"
    /\ UNCHANGED <<prior_collection, embeddings, clear_collection>>
    /\ UNCHANGED storeOthers

\* collection.add raises.
StoreAddRaises ==
    /\ store_pc = "cleared"
    /\ store_pc' = "raised"
    /\ UNCHANGED <<collection, prior_collection, embeddings, clear_collection>>
    /\ UNCHANGED storeOthers

StoreNext ==
    \/ StoreNothing
    \/ StoreClear
    \/ StoreClearRaises
    \/ StoreAdd
    \/ StoreAddRaises

(***************************************************************************)
(* Claims about store_in_chromadb (checked under SpecStore).               *)
(***************************************************************************)
\* C6: after a successful call with clear_collection true and a non-empty
\* list of n items the collection holds exactly the ids doc_0 .. doc_{n-1},
\* doc_i holding the i-th item's document, embedding and metadata, and no
\* entry that was there before the call remains.
C6_ClearThenInsert ==
    (store_pc = "returned" /\ clear_collection /\ embeddings # <<>>) =>
        /\ DOMAIN collection = {DocId(i) : i \in 0..(Len(embeddings) - 1)}
        /\ Cardinality(DOMAIN collection) = Len(embeddings)
        /\ \A i \in 0..(Len(embeddings) - 1) :
              /\ collection[DocId(i)].document = embeddings[i + 1].document
              /\ collection[DocId(i)].embedding = embeddings[i + 1].embedding
              /\ collection[DocId(i)].metadata = embeddings[i + 1].metadata
        /\ \A id \in DOMAIN prior_collection :
              id \in DOMAIN collection =>
                  collection[id] = embeddings[id[2] + 1]

\* A successful clearing call with two items on a collection that held
\* a different doc_0, a doc id beyond the list and an id of another origin.
C6_Witness ==
    /\ store_pc = "returned"
    /\ clear_collection
    /\ Len(embeddings) = 2
    /\ DOMAIN prior_collection = PriorIds
    /\ prior_collection[DocId(0)] # embeddings[1]
    /\ embeddings[1] # embeddings[2]

(***************************************************************************)
(* query_chroma_db (7_embeddings.py)                                       *)
(***************************************************************************)
\* Embedding vectors: two integer components.
Vectors == {<<1, 0>>, <<1, 1>>, <<0, 1>>, <<0, 0>>, <<-1, 0>>}

\* None, where a vector is expected (embs[i] is None; no embedding yet).
None == <<>>

\* The texts of the stored documents, in the order the store returns them.
DocTexts == <<"text A", "text B", "text C", "text D", "text E">>

Dot(v1, v2) == v1[1] * v2[1] + v1[2] * v2[2]

\* cosine_similarity: 0 when a norm is 0, else dot / (|v1| * |v2|).  The
\* score c is kept exactly, as the fraction num/den = sign(c) * c^2 with
\* den > 0, which orders as c does.
cosine_similarity(v1, v2) ==
    IF Dot(v1, v1) = 0 \/ Dot(v2, v2) = 0
    THEN [num |-> 0, den |-> 1]
    ELSE [num |-> (IF Dot(v1, v2) < 0 THEN -1 ELSE 1) * Dot(v1, v2) * Dot(v1, v2),
          den |-> Dot(v1, v1) * Dot(v2, v2)]

\* a >= b for two scores
ScoreGeq(a, b) == a.num * b.den >= b.num * a.den

\* candidate_docs.sort(key=similarity_score, reverse=True): stable; x is
\* inserted behind every element whose score is >= its own.
InsertByScore(sorted, x) ==
    LET p == Cardinality({i \in 1..Len(sorted) :
                             ScoreGeq(sorted[i].similarity_score, x.similarity_score)})
    IN SubSeq(sorted, 1, p) \o <<x>> \o SubSeq(sorted, p + 1, Len(sorted))

RECURSIVE SortByScoreDesc(_)
Unsorted(lst) == lst
SortByScoreDesc(lst) ==
    IF lst = <<>> THEN <<>>
    ELSE InsertByScore(SortByScoreDesc(SubSeq(lst, 1, Len(lst) - 1)), lst[Len(lst)])

\* "\n".join(parts): the parts with a newline between neighbours.
RECURSIVE JoinLines(_)
JoinLines(parts) ==
    IF parts = <<>> THEN <<>>
    ELSE IF Len(parts) = 1 THEN <<parts[1]>>
    ELSE <<parts[1], "\n">> \o JoinLines(Tail(parts))

\* [doc["text"] for doc in candidate_docs]
Texts(docs) == [i \in 1..Len(docs) |-> docs[i].text]

\* The empty dictionary {} of the error path.
EmptyDict == [k \in {} |-> k]

\* if i >= top_n: break
NoLimit(i, n) == FALSE
LoopBreaks(i, n) == i >= n

\* metadata = metas[i] if (i < len(metas)) else {}
MetadataAt(metas, i) == IF i < Len(metas) THEN metas[i + 1] ELSE EmptyDict

\* What collection.query can return: k documents with their embeddings (an
\* embedding may be missing), and the metadatas, aligned or not returned.
QueryResults ==
    UNION {
        {[documents |-> SubSeq(DocTexts, 1, k), embeddings |-> v,
          metadatas |-> IF m THEN [i \in 1..k |-> [chunk_file |-> DocTexts[i]]]
                             ELSE <<>>] :
            v \in [1..k -> Vectors \cup {None}],
            m \in BOOLEAN} : k \in 0..MaxResults}

NoResults == [documents |-> <<>>, embeddings |-> <<>>, metadatas |-> <<>>]

QueryIdle ==
    /\ top_n = 1
    /\ query_embedding = None
    /\ results = NoResults
    /\ loop_i = 0
    /\ candidate_docs = <<>>
    /\ query_result = EmptyDict
    /\ query_pc = "idle"

QueryInit ==
    /\ top_n \in 1..MaxTopN
    /\ query_embedding = None
    /\ results = NoResults
    /\ loop_i = 0
    /\ candidate_docs = <<>>
    /\ query_result = EmptyDict
    /\ query_pc = "call"

QueryFrame == UNCHANGED <<top_n, queryOthers>>

\* query_embedding = compute_embedding(api_key, query)
QueryEmbed ==
    /\ query_pc = "call"
    /\ query_embedding' \in Vectors
    /\ query_pc' = "chroma"
    /\ UNCHANGED <<results, loop_i, candidate_docs, query_result>>
    /\ QueryFrame

\* compute_embedding raises before the try block: the exception propagates.
QueryEmbedRaises ==
    /\ query_pc = "call"
    /\ query_pc' = "raised"
    /\ UNCHANGED <<query_embedding, results, loop_i, candidate_docs, query_result>>
    /\ QueryFrame

\* Client, collection and collection.query(n_results=top_n).
QueryChroma ==
    /\ query_pc = "chroma"
    /\ results' \in QueryResults
    /\ loop_i' = 0
    /\ candidate_docs' = <<>>
    /\ query_pc' = "loop"
    /\ UNCHANGED <<query_embedding, query_result>>
    /\ QueryFrame

\* Anything inside the try block raises: log and return {}.
QueryFails ==
    /\ query_pc \in {"chroma", "loop"}
    /\ query_pc = "loop" =>
          /\ loop_i < Len(results.documents)
          /\ ~LoopBreaks(loop_i, top_n)
          /\ results.embeddings[loop_i + 1] = None
    /\ query_result' = EmptyDict
    /\ query_pc' = "returned"
    /\ UNCHANGED <<query_embedding, results, loop_i, candidate_docs>>
    /\ QueryFrame

\* One iteration of the loop over docs.
QueryCandidate ==
    /\ query_pc = "loop"
    /\ loop_i < Len(results.documents)
    /\ ~LoopBreaks(loop_i, top_n)
    /\ \E candidate_embedding \in Vectors :
          /\ results.embeddings[loop_i + 1] # None
                => candidate_embedding = results.embeddings[loop_i + 1]
          /\ candidate_docs' = Append(candidate_docs,
                [text |-> results.documents[loop_i + 1],
                 similarity_score |-> cosine_similarity(query_embedding, candidate_embedding),
                 metadata |-> MetadataAt(results.metadatas, loop_i)])
    /\ loop_i' = loop_i + 1
    /\ UNCHANGED <<query_embedding, results, query_result, query_pc>>
    /\ QueryFrame

\* The loop ends (exhausted or break): sort, join, return.
QueryReturn ==
    /\ query_pc = "loop"
    /\ \/ ~(loop_i < Len(results.documents))
       \/ LoopBreaks(loop_i, top_n)
    /\ LET sorted == SortByScoreDesc(candidate_docs)
       IN /\ candidate_docs' = sorted
          /\ query_result' = [combined_context |-> JoinLines(Texts(sorted)),
                              documents |-> sorted]
    /\ query_pc' = "returned"
    /\ UNCHANGED <<query_embedding, results, loop_i>>
    /\ QueryFrame

QueryNext ==
    \/ QueryEmbed
    \/ QueryEmbedRaises
    \/ QueryChroma
    \/ QueryFails
    \/ QueryCandidate
    \/ QueryReturn

(***************************************************************************)
(* Claims about query_chroma_db (checked under SpecQuery).                 *)
(***************************************************************************)
\* d is a result dictionary: at most top_n documents, each with text,
\* similarity_score and metadata, from highest to lowest score, and the
\* combined_context their texts in that order with newlines between.
WellFormedResult(d) ==
    /\ DOMAIN d = {"combined_context", "documents"}
    /\ Len(d.documents) <= top_n
    /\ \A i \in 1..Len(d.documents) :
          /\ DOMAIN d.documents[i] = {"text", "similarity_score", "metadata"}
          /\ \E j \in 1..Len(results.documents) :
                d.documents[i].text = results.documents[j]
    /\ \A i \in 1..(Len(d.documents) - 1) :
          ScoreGeq(d.documents[i].similarity_score,
                   d.documents[i + 1].similarity_score)
    /\ Len(d.combined_context) =
          IF d.documents = <<>> THEN 0 ELSE 2 * Len(d.documents) - 1
    /\ \A i \in 1..Len(d.documents) :
          /\ d.combined_context[2 * i - 1] = d.documents[i].text
          /\ i > 1 => d.combined_context[2 * i - 2] = "\n"

\* C7 (as amended): query_chroma_db returns either the empty dictionary (the
\* ChromaDB stage raised) or a dictionary whose documents are at most top_n,
\* ordered from highest to lowest similarity_score, and whose
\* combined_context is their newline-joined texts in that order.
C7_ResultOrEmpty ==
    query_pc = "returned" =>
        \/ query_result = EmptyDict
        \/ WellFormedResult(query_result)

\* C7 as stated: every returned dictionary has the documents list and the
\* combined_context.
C7_AlwaysDocuments ==
    query_pc = "returned" => WellFormedResult(query_result)

\* A returned result of two documents out of three candidates, in another
\* order than the store's, the scores differing.
C7_Witness ==
    /\ query_pc = "returned"
    /\ query_result # EmptyDict
    /\ top_n = 2
    /\ Len(results.documents) = 3
    /\ Len(query_result.documents) = 2
    /\ query_result.documents[1].text = "text B"
    /\ query_result.documents[2].text = "text A"
    /\ ~ScoreGeq(query_result.documents[2].similarity_score,
                 query_result.documents[1].similarity_score)

(***************************************************************************)
(* chatbot/chatgpt_api.py: build_messages and main                         *)
(***************************************************************************)
\* Optional[str]: None, or a string (which may be empty).
NoneStr == [given |-> FALSE, value |-> ""]
Str(v) == [given |-> TRUE, value |-> v]

\* Python truthiness of an Optional[str]: None and "" are false.
Truthy(opt) == opt.given /\ opt.value # ""

\* build_messages(user_input, system, context)
BuildMessagesContextFirst(user, system, ctx) ==
    LET m0 == <<>>
        m1 == IF Truthy(ctx)
              THEN Append(m0, [role |-> "system", content |-> "Context:\n" \o ctx.value])
              ELSE m0
        m2 == IF Truthy(system)
              THEN Append(m1, [role |-> "system", content |-> system.value])
              ELSE m1
    IN Append(m2, [role |-> "user", content |-> user])
build_messages(user, system, ctx) ==
    LET m0 == <<>>
        m1 == IF Truthy(system)
              THEN Append(m0, [role |-> "system", content |-> system.value])
              ELSE m0
        m2 == IF Truthy(ctx)
              THEN Append(m1, [role |-> "system", content |-> "Context:\n" \o ctx.value])
              ELSE m1
    IN Append(m2, [role |-> "user", content |-> user])

UserInputs == {"", "Tell me a joke."}
SystemInputs == {NoneStr, Str(""), Str("You are a funny assistant.")}
\* What query_chroma_db can return: the best document's text, or "" for no result.
BestTexts == {"", "text A", "text B"}
\* The stripped content of the chat completion.
Replies == {"", "Why did the chicken cross the road?"}

ChatIdle ==
    /\ user_input = ""
    /\ system_input = NoneStr
    /\ use_embeddings = FALSE
    /\ context = ""
    /\ messages = <<>>
    /\ stdout = <<>>
    /\ calls = <<>>
    /\ chat_pc = "idle"

\* parse_arguments
ChatInit ==
    /\ user_input \in UserInputs
    /\ system_input \in SystemInputs
    /\ use_embeddings \in BOOLEAN
    /\ context = ""
    /\ messages = <<>>
    /\ stdout = <<>>
    /\ calls = <<>>
    /\ chat_pc = "start"

ChatFrame == UNCHANGED <<user_input, system_input, use_embeddings, chatOthers>>

\* load_api_key succeeds; context = ""; the branch on args.embeddings.
ChatLoadKey ==
    /\ chat_pc = "start"
    /\ context' = ""
    /\ chat_pc' = IF use_embeddings THEN "retrieve" ELSE "build"
    /\ UNCHANGED <<messages, stdout, calls>>
    /\ ChatFrame

\* load_api_key logs and re-raises: main ends with the exception.
ChatLoadKeyRaises ==
    /\ chat_pc = "start"
    /\ chat_pc' = "raised"
    /\ UNCHANGED <<context, messages, stdout, calls>>
    /\ ChatFrame

\* query_chroma_db: compute_embedding(api_key, query) returns.
ChatEmbed ==
    /\ chat_pc = "retrieve"
    /\ calls' = Append(calls, "embedding")
    /\ chat_pc' = "chroma"
    /\ UNCHANGED <<context, messages, stdout>>
    /\ ChatFrame

\* compute_embedding logs and re-raises, outside query_chroma_db's try.
ChatEmbedRaises ==
    /\ chat_pc = "retrieve"
    /\ calls' = Append(calls, "embedding")
    /\ chat_pc' = "raised"
    /\ UNCHANGED <<context, messages, stdout>>
    /\ ChatFrame

\* query_chroma_db: collection.query returns; the best text or "".
ChatChroma ==
    /\ chat_pc = "chroma"
    /\ calls' = Append(calls, "chroma")
    /\ context' \in BestTexts
    /\ chat_pc' = "build"
    /\ UNCHANGED <<messages, stdout>>
    /\ ChatFrame

\* query_chroma_db: the ChromaDB stage raises; caught, "" is returned.
ChatChromaFails ==
    /\ chat_pc = "chroma"
    /\ calls' = Append(calls, "chroma")
    /\ context' = ""
    /\ chat_pc' = "build"
    /\ UNCHANGED <<messages, stdout>>
    /\ ChatFrame

\* messages = build_messages(user_input, system_input, context)
ChatBuild ==
    /\ chat_pc = "build"
    /\ messages' = build_messages(user_input, system_input, Str(context))
    /\ chat_pc' = "chat"
    /\ UNCHANGED <<context, stdout, calls>>
    /\ ChatFrame

\* What main prints after query_chatgpt returned response_text.
PrintedTwice(out, response_text) ==
    out \o <<[text |-> response_text], [text |-> response_text]>>
Printed(out, response_text) == Append(out, [text |-> response_text])

\* query_chatgpt returns; print(json.dumps({"text": response_text})).
ChatQuery ==
    /\ chat_pc = "chat"
    /\ calls' = Append(calls, "chat")
    /\ \E response_text \in Replies : stdout' = Printed(stdout, response_text)
    /\ chat_pc' = "done"
    /\ UNCHANGED <<context, messages>>
    /\ ChatFrame

\* query_chatgpt logs and re-raises: nothing is printed.
ChatQueryRaises ==
    /\ chat_pc = "chat"
    /\ calls' = Append(calls, "chat")
    /\ chat_pc' = "raised"
    /\ UNCHANGED <<context, messages, stdout>>
    /\ ChatFrame

ChatNext ==
    \/ ChatLoadKey
    \/ ChatLoadKeyRaises
    \/ ChatEmbed
    \/ ChatEmbedRaises
    \/ ChatChroma
    \/ ChatChromaFails
    \/ ChatBuild
    \/ ChatQuery
    \/ ChatQueryRaises

(***************************************************************************)
(* Claims about chatbot/chatgpt_api.py (checked under SpecChat).           *)
(***************************************************************************)
\* The positions of the messages of a role.
WithRole(r) == {i \in 1..Len(messages) : messages[i].role = r}

\* C8: the list build_messages returns ends with the one user message
\* carrying user_input; the system prompt's message is there iff the prompt
\* is non-empty, and is then first; the "Context:" system message is there
\* iff the context is non-empty, and is then after the system prompt and
\* before the user message; there is nothing else in the list.
C8_BuildMessages ==
    chat_pc \in {"chat", "done"} =>
        LET hasSystem == system_input.given /\ Len(system_input.value) > 0
            hasContext == Len(context) > 0
            n == Len(messages)
        IN /\ n = 1 + (IF hasSystem THEN 1 ELSE 0) + (IF hasContext THEN 1 ELSE 0)
           /\ messages[n] = [role |-> "user", content |-> user_input]
           /\ WithRole("user") = {n}
           /\ WithRole("system") = 1..(n - 1)
           /\ hasSystem =>
                 messages[1] = [role |-> "system", content |-> system_input.value]
           /\ hasContext =>
                 /\ messages[n - 1].role = "system"
                 /\ messages[n - 1].content = "Context:\n" \o context
                 /\ Len(messages[n - 1].content) = Len(context) + 9

\* Messages built from a system prompt and a retrieved context.
C8_Witness ==
    /\ chat_pc = "chat"
    /\ Len(messages) = 3
    /\ system_input.value # ""
    /\ context = "text A"
    /\ messages[2].content = "Context:\ntext A"

\* The positions of a remote call in the history of calls.
CallsOf(c) == {i \in 1..Len(calls) : calls[i] = c}

RunEnded == chat_pc \in {"done", "raised"}

Messages == 1..MaxMessages

\* message.data: bytes that are not UTF-8, text that is not JSON, JSON that
\* is not an object, or a JSON object; historyId is the value of
\* notification.get("historyId"): absent (None), falsy (0, "", null) or an id.
Payloads ==
    {[kind |-> "bad_utf8", historyId |-> "absent"],
     [kind |-> "bad_json", historyId |-> "absent"],
     [kind |-> "json_array", historyId |-> "absent"],
     [kind |-> "json_object", historyId |-> "absent"],
     [kind |-> "json_object", historyId |-> "falsy"],
     [kind |-> "json_object", historyId |-> "101"],
     [kind |-> "json_object", historyId |-> "202"]}

\* What the body of the try block raises before the branch on history_id:
\* message.data.decode, json.loads, notification.get.
RaisedByParsing(p) ==
    CASE p.kind = "bad_utf8" -> "UnicodeDecodeError"
      [] p.kind = "bad_json" -> "JSONDecodeError"
      [] p.kind = "json_array" -> "AttributeError"
      [] OTHER -> "none"

\* `if history_id:`
HistoryIdGiven(p) == p.historyId \notin {"absent", "falsy"}

\* The event of calling process_history(gmail_service, history_id).
HistoryFrom(id) == "history_from:" \o id

\* `except Exception as e:` catches every exception raised in the try block.
CatchesOnlyJsonErrors(e) == IF e = "JSONDecodeError" THEN "none" ELSE e
AfterExcept(e) == "none"

PubsubIdle ==
    /\ payload = [m \in {} |-> m]
    /\ cb_pc = [m \in {} |-> m]
    /\ exc = [m \in {} |-> m]
    /\ acks = [m \in {} |-> m]
    /\ events = [m \in {} |-> m]

\* The subscription is open; the messages are still to be delivered.
PubsubInit ==
    /\ payload \in [Messages -> Payloads]
    /\ cb_pc = [m \in Messages |-> "pending"]
    /\ exc = [m \in Messages |-> "none"]
    /\ acks = [m \in Messages |-> 0]
    /\ events = [m \in Messages |-> <<>>]

\* The subscriber invokes pubsub_callback(message).
Deliver(m) ==
    /\ cb_pc[m] = "pending"
    /\ cb_pc' = [cb_pc EXCEPT ![m] = "try"]
    /\ events' = [events EXCEPT ![m] = Append(@, "received")]
    /\ UNCHANGED <<payload, exc, acks>>
    /\ UNCHANGED pubsubOthers

\* The try block up to the branch: decode, json.loads, get("historyId");
\* an exception goes through the except clause.
CallbackParse(m) ==
    /\ cb_pc[m] = "try"
    /\ LET raised == RaisedByParsing(payload[m])
       IN IF raised # "none"
          THEN /\ exc' = [exc EXCEPT ![m] = AfterExcept(raised)]
               /\ cb_pc' = [cb_pc EXCEPT ![m] = "finally"]
               /\ events' = [events EXCEPT ![m] = Append(@, "parse_error")]
          ELSE IF HistoryIdGiven(payload[m])
          THEN /\ cb_pc' = [cb_pc EXCEPT ![m] = "history"]
               /\ events' = [events EXCEPT ![m] =
                                Append(@, HistoryFrom(payload[m].historyId))]
               /\ UNCHANGED exc
          ELSE /\ cb_pc' = [cb_pc EXCEPT ![m] = "finally"]
               /\ events' = [events EXCEPT ![m] = Append(@, "no_history_id")]
               /\ UNCHANGED exc
    /\ UNCHANGED <<payload, acks>>
    /\ UNCHANGED pubsubOthers

\* process_history(gmail_service, history_id): history().list(...) returns
\* and the new message ids are logged.
ProcessHistory(m) ==
    /\ cb_pc[m] = "history"
    /\ cb_pc' = [cb_pc EXCEPT ![m] = "finally"]
    /\ events' = [events EXCEPT ![m] = Append(@, "history_listed")]
    /\ UNCHANGED <<payload, exc, acks>>
    /\ UNCHANGED pubsubOthers

\* process_history: the API call or the walk over the response raises; its
\* own except clause logs the error and the function returns.
ProcessHistoryFails(m) ==
    /\ cb_pc[m] = "history"
    /\ cb_pc' = [cb_pc EXCEPT ![m] = "finally"]
    /\ events' = [events EXCEPT ![m] = Append(@, "history_error")]
    /\ UNCHANGED <<payload, exc, acks>>
    /\ UNCHANGED pubsubOthers

\* The number of acknowledgements after the finally clause ran.
AckSkipped(n) == n
AckAdded(n) == n + 1

\* finally: message.ack(); then the callback returns, or the exception
\* still in flight leaves it.
CallbackFinally(m) ==
    /\ cb_pc[m] = "finally"
    /\ acks' = [acks EXCEPT ![m] = AckAdded(@)]
    /\ events' = [events EXCEPT ![m] = Append(@, "ack")]
    /\ cb_pc' = [cb_pc EXCEPT ![m] = IF exc[m] = "none" THEN "returned" ELSE "escaped"]
    /\ UNCHANGED <<payload, exc>>
    /\ UNCHANGED pubsubOthers

PubsubNext ==
    \E m \in Messages :
        \/ Deliver(m)
        \/ CallbackParse(m)
        \/ ProcessHistory(m)
        \/ ProcessHistoryFails(m)
        \/ CallbackFinally(m)

(***************************************************************************)
(* Claims about pubsub_callback (checked under SpecPubsub).                *)
(***************************************************************************)
CallbackEnded(m) == cb_pc[m] \in {"returned", "escaped"}

\* The positions of an event in the history of message m.
EventsOf(m, e) == {i \in 1..Len(events[m]) : events[m][i] = e}

\* C10: pubsub_callback acknowledges each message it receives exactly once,
\* and only after its processing attempt has finished: for a JSON object
\* with a historyId (history is then processed from it), without one, for
\* an undecodable payload, and when processing raised; no exception escapes.
C10_AckOnceAfterProcessing ==
    \A m \in Messages :
        /\ cb_pc[m] # "escaped"
        /\ acks[m] = Cardinality(EventsOf(m, "ack"))
        /\ acks[m] <= 1
        /\ CallbackEnded(m) <=> acks[m] = 1
        /\ \A i \in EventsOf(m, "ack") :
              /\ i = Len(events[m])
              /\ i = 3 \/ i = 4
              /\ events[m][i - 1] \in {"parse_error", "no_history_id",
                                       "history_listed", "history_error"}
        /\ \A id \in {"absent", "falsy", "101", "202"} :
              EventsOf(m, HistoryFrom(id)) # {} <=>
                  /\ cb_pc[m] \in {"history", "finally", "returned"}
                  /\ payload[m].kind = "json_object"
                  /\ payload[m].historyId = id
                  /\ id \in {"101", "202"}
        /\ \A id \in {"101", "202"} :
              \A i \in EventsOf(m, HistoryFrom(id)) :
                  /\ i = 2
                  /\ cb_pc[m] # "history" =>
                        events[m][i + 1] \in {"history_listed", "history_error"}

\* Two finished invocations: one for an undecodable payload, one whose
\* history processing raised; each message acknowledged once.
C10_Witness ==
    /\ \A m \in Messages : cb_pc[m] = "returned" /\ acks[m] = 1
    /\ \E m \in Messages : payload[m].kind = "bad_utf8"
    /\ \E m \in Messages : events[m] = <<"received", "history_from:202",
                                         "history_error", "ack">>

(***************************************************************************)
(* gmail/main.py: process_pubsub_message and process_new_emails.           *)
(* fetch_unread_messages and create_draft_reply are remote calls: the      *)
(* first returns some list of messages or raises, the second is recorded   *)
(* by its arguments and returns or raises.                                 *)
(***************************************************************************)
\* str.lower() on the header names that occur.
Lower(s) ==
    CASE s \in {"From", "FROM", "from"} -> "from"
      [] s \in {"Subject", "SUBJECT", "subject"} -> "subject"
      [] s = "To" -> "to"
      [] s \in {"Autoreply", "AUTOREPLY", "autoreply"} -> "autoreply"
      [] s = "INBOX" -> "inbox"
      [] OTHER -> s

Header(n, v) == [name |-> n, value |-> v]

\* The header lists of the messages a fetch can return.  A header without a
\* "name" key reads as the name "" (h.get("name", "")).
HeaderLists ==
    { <<Header("From", "ann@x"), Header("Subject", "Hi")>>,
      <<Header("SUBJECT", "Yo"), Header("To", "me@x"), Header("from", "bob@x")>>,
      <<Header("From", "ann@x"), Header("", "Re: Hi")>>,
      <<Header("To", "me@x"), Header("subject", "Hi"), Header("Subject", "Yo")>>,
      <<>> }

\* The index of the first header whose lowered name is n, or 0.
RECURSIVE FirstNamed(_, _, _)
FirstNamed(headers, n, i) ==
    IF i > Len(headers) THEN 0
    ELSE IF Lower(headers[i].name) = n THEN i
    ELSE FirstNamed(headers, n, i + 1)

\* next((h["value"] for h in headers if ...), default)
HeaderValue(headers, n, default) ==
    IF FirstNamed(headers, n, 1) = 0 THEN default
    ELSE headers[FirstNamed(headers, n, 1)].value

\* A bug extract_email_headers could have: names compared without lower().
ExtractCaseSensitive(headers) ==
    [from_header |->
        IF \E i \in 1..Len(headers) : headers[i].name = "from"
        THEN (CHOOSE v \in {headers[i].value : i \in 1..Len(headers)} :
                 \E i \in 1..Len(headers) :
                     headers[i].name = "from" /\ headers[i].value = v)
        ELSE "",
     subject_header |->
        IF \E i \in 1..Len(headers) : headers[i].name = "subject"
        THEN (CHOOSE v \in {headers[i].value : i \in 1..Len(headers)} :
                 \E i \in 1..Len(headers) :
                     headers[i].name = "subject" /\ headers[i].value = v)
        ELSE "No Subject"]

extract_email_headers(headers) ==
    [from_header |-> HeaderValue(headers, "from", ""),
     subject_header |-> HeaderValue(headers, "subject", "No Subject")]

reply_body ==
    "Thank you for your email.\n\nThis is an automated draft reply from our system.\nSomeone will get back to you shortly."

\* The arguments of the create_draft_reply call made for msg.
DraftArgs(msg) ==
    [to_email |-> extract_email_headers(msg.headers).from_header,
     subject |-> "Re: " \o extract_email_headers(msg.headers).subject_header,
     body_text |-> reply_body]

\* A fetched message: msg.get("payload", {}).get("headers", []) and its id.
MailMessages == {[id |-> "m", headers |-> h] : h \in HeaderLists}

MailData == {"bad_utf8", "bad_json", "json"}

MailIdle ==
    /\ mail_data = "none"
    /\ mail_pc = "idle"
    /\ mail_events = <<>>
    /\ mail_acks = 0
    /\ new_msgs = <<>>
    /\ msg_idx = 0
    /\ draft_calls = <<>>
    /\ mail_exc = "none"

\* The subscriber hands a message to process_pubsub_message.
MailInit ==
    /\ mail_data \in MailData
    /\ mail_pc = "received"
    /\ mail_events = <<>>
    /\ mail_acks = 0
    /\ new_msgs = <<>>
    /\ msg_idx = 0
    /\ draft_calls = <<>>
    /\ mail_exc = "none"

\* message.ack(), the first statement.
MailAck ==
    /\ mail_pc = "received"
    /\ mail_acks' = mail_acks + 1
    /\ mail_events' = Append(mail_events, "ack")
    /\ mail_pc' = "acked"
    /\ UNCHANGED <<mail_data, new_msgs, msg_idx, draft_calls, mail_exc>>
    /\ UNCHANGED mailOthers

\* data_str = message.data.decode("utf-8"), then the logging line.
MailDecode ==
    /\ mail_pc = "acked"
    /\ mail_data # "bad_utf8"
    /\ mail_events' = Append(mail_events, "log")
    /\ mail_pc' = "try"
    /\ UNCHANGED <<mail_data, mail_acks, new_msgs, msg_idx, draft_calls, mail_exc>>
    /\ UNCHANGED mailOthers

\* decode raises UnicodeDecodeError: the statement stands before the try
\* block, so the exception leaves process_pubsub_message.
MailDecodeRaises ==
    /\ mail_pc = "acked"
    /\ mail_data = "bad_utf8"
    /\ mail_exc' = "UnicodeDecodeError"
    /\ mail_pc' = "escaped"
    /\ UNCHANGED <<mail_data, mail_events, mail_acks, new_msgs, msg_idx, draft_calls>>
    /\ UNCHANGED mailOthers

\* notification_data = json.loads(data_str), then process_new_emails is called.
MailParse ==
    /\ mail_pc = "try"
    /\ mail_data = "json"
    /\ mail_events' = mail_events \o <<"parsed", "process_new_emails">>
    /\ mail_pc' = "fetch"
    /\ UNCHANGED <<mail_data, mail_acks, new_msgs, msg_idx, draft_calls, mail_exc>>
    /\ UNCHANGED mailOthers

\* json.loads raises: except Exception logs it and the callback returns.
MailParseRaises ==
    /\ mail_pc = "try"
    /\ mail_data = "bad_json"
    /\ mail_exc' = "JSONDecodeError"
    /\ mail_events' = Append(mail_events, "error_logged")
    /\ mail_pc' = "returned"
    /\ UNCHANGED <<mail_data, mail_acks, new_msgs, msg_idx, draft_calls>>
    /\ UNCHANGED mailOthers

\* new_msgs = fetch_unread_messages(label=label); return when it is empty.
MailFetch ==
    /\ mail_pc = "fetch"
    /\ \E msgs \in SeqsUpTo(MailMessages, MaxMsgs) :
          /\ new_msgs' = msgs
          /\ msg_idx' = IF msgs = <<>> THEN 0 ELSE 1
          /\ mail_pc' = IF msgs = <<>> THEN "returned" ELSE "loop"
    /\ mail_events' = Append(mail_events, "fetched")
    /\ UNCHANGED <<mail_data, mail_acks, draft_calls, mail_exc>>
    /\ UNCHANGED mailOthers

\* fetch_unread_messages raises: caught by process_pubsub_message.
MailFetchRaises ==
    /\ mail_pc = "fetch"
    /\ mail_exc' = "fetch_error"
    /\ mail_events' = Append(mail_events, "error_logged")
    /\ mail_pc' = "returned"
    /\ UNCHANGED <<mail_data, mail_acks, new_msgs, msg_idx, draft_calls>>
    /\ UNCHANGED mailOthers

\* One iteration of `for msg in new_msgs`: create_draft_reply returns.
MailDraft ==
    /\ mail_pc = "loop"
    /\ draft_calls' = Append(draft_calls, DraftArgs(new_msgs[msg_idx]))
    /\ mail_events' = Append(mail_events, "draft")
    /\ IF msg_idx = Len(new_msgs)
       THEN mail_pc' = "returned" /\ UNCHANGED msg_idx
       ELSE mail_pc' = "loop" /\ msg_idx' = msg_idx + 1
    /\ UNCHANGED <<mail_data, mail_acks, new_msgs, mail_exc>>
    /\ UNCHANGED mailOthers

\* create_draft_reply raises: the exception leaves process_new_emails, the
\* remaining messages are not visited, process_pubsub_message catches it.
MailDraftRaises ==
    /\ mail_pc = "loop"
    /\ draft_calls' = Append(draft_calls, DraftArgs(new_msgs[msg_idx]))
    /\ mail_exc' = "draft_error"
    /\ mail_events' = mail_events \o <<"draft", "error_logged">>
    /\ mail_pc' = "returned"
    /\ UNCHANGED <<mail_data, mail_acks, new_msgs, msg_idx>>
    /\ UNCHANGED mailOthers

MailNext ==
    \/ MailAck
    \/ MailDecode
    \/ MailDecodeRaises
    \/ MailParse
    \/ MailParseRaises
    \/ MailFetch
    \/ MailFetchRaises
    \/ MailDraft
    \/ MailDraftRaises

(***************************************************************************)
(* Claims about gmail/main.py (checked under SpecMail).                    *)
(***************************************************************************)
\* The positions of event e in the history of the invocation.
MailEventsOf(e) == {i \in 1..Len(mail_events) : mail_events[i] = e}

\* C11: process_pubsub_message acknowledges the message first, then logs and
\* parses the notification, then triggers process_new_emails; processing is
\* triggered only for a payload that parses as JSON; an error raised while
\* parsing or processing is caught (no exception leaves the callback) and the
\* acknowledgement stays.
C11_AckFirstErrorsCaught ==
    /\ mail_pc # "received" => mail_acks = 1 /\ mail_events[1] = "ack"
    /\ MailEventsOf("ack") \subseteq {1}
    /\ MailEventsOf("log") \subseteq {2}
    /\ MailEventsOf("parsed") \subseteq {3}
    /\ MailEventsOf("process_new_emails") \subseteq {4}
    /\ MailEventsOf("process_new_emails") # {} => mail_data = "json"
    /\ MailEventsOf("fetched") # {} => MailEventsOf("process_new_emails") # {}
    /\ mail_exc # "none" => mail_pc = "returned"
    /\ mail_pc # "escaped"

\* The value of the first header named n (names compared in lower case).
FirstValue(headers, n, default) ==
    IF \A i \in 1..Len(headers) : Lower(headers[i].name) # n THEN default
    ELSE LET first == CHOOSE i \in 1..Len(headers) :
                          /\ Lower(headers[i].name) = n
                          /\ \A j \in 1..(i - 1) : Lower(headers[j].name) # n
         IN headers[first].value

\* The k-th create_draft_reply call is the one the k-th fetched message asks for.
DraftMatches(k) ==
    /\ draft_calls[k].to_email = FirstValue(new_msgs[k].headers, "from", "")
    /\ draft_calls[k].subject =
           "Re: " \o FirstValue(new_msgs[k].headers, "subject", "No Subject")

\* process_new_emails has ended, by returning or by an exception.
ProcessEnded == mail_pc = "returned" /\ MailEventsOf("fetched") # {}

\* C12 (as amended): create_draft_reply is called once per fetched message,
\* in fetch order, to the message's From header with subject "Re: " and its
\* Subject header ("No Subject" when absent), up to the first call that raises:
\* n calls for n messages when no call raises, none for an empty fetch, and
\* no call after a call that raised.
C12_DraftPerMessageUntilError ==
    /\ Len(draft_calls) <= Len(new_msgs)
    /\ \A k \in 1..Len(draft_calls) : DraftMatches(k)
    /\ mail_pc = "loop" => Len(draft_calls) = msg_idx - 1
    /\ (ProcessEnded /\ mail_exc = "none") => Len(draft_calls) = Len(new_msgs)
    /\ (ProcessEnded /\ mail_exc = "draft_error") =>
           /\ Len(draft_calls) = msg_idx
           /\ mail_events[Len(mail_events) - 1] = "draft"
    /\ Len(draft_calls) = Cardinality(MailEventsOf("draft"))

\* C12 as stated: whenever the fetch returned n messages, process_new_emails
\* ends with exactly n create_draft_reply calls, one per message.
C12_DraftPerMessage ==
    ProcessEnded =>
        /\ Len(draft_calls) = Len(new_msgs)
        /\ \A k \in 1..Len(draft_calls) : DraftMatches(k)

\* Two messages fetched, both drafted: one without a Subject header, the
\* other with upper- and lower-case header names.
C12_Witness ==
    /\ ProcessEnded
    /\ mail_exc = "none"
    /\ Len(draft_calls) = 2
    /\ draft_calls[1].to_email = "ann@x"
    /\ draft_calls[1].subject = "Re: No Subject"
    /\ draft_calls[2].to_email = "bob@x"
    /\ draft_calls[2].subject = "Re: Yo"

(***************************************************************************)
(* gmail/folder_subscribe.py: main, get_label_id, setup_gmail_watch,       *)
(* listen_for_pubsub_messages.  Once the subscription is open the          *)
(* subscriber runs pubsub_callback, modelled above, for each message.      *)
(***************************************************************************)
Label(n, i) == [name |-> n, id |-> i]

\* Values of --label.
LabelArgs == {"autoreply", "Autoreply", "missing"}

\* What labels().list returns; a label without an "id" key has id None.
LabelLists ==
    { <<Label("INBOX", "L1"), Label("Autoreply", "L2")>>,
      <<Label("AUTOREPLY", "L3"), Label("autoreply", "L2")>>,
      <<Label("autoreply", "None"), Label("Autoreply", "L2")>>,
      <<Label("INBOX", "L1")>>,
      <<>> }

\* The index of the first label whose name equals label_name, or 0.
RECURSIVE FirstLabelExactly(_, _, _)
FirstLabelExactly(labels, label_name, i) ==
    IF i > Len(labels) THEN 0
    ELSE IF labels[i].name = label_name THEN i
    ELSE FirstLabelExactly(labels, label_name, i + 1)

\* A bug get_label_id could have: names compared without lower().
GetLabelIdCaseSensitive(labels, label_name) ==
    IF FirstLabelExactly(labels, label_name, 1) = 0 THEN "None"
    ELSE labels[FirstLabelExactly(labels, label_name, 1)].id

\* The index of the first label whose lowered name is the lowered
\* label_name, or 0.
RECURSIVE FirstLabel(_, _, _)
FirstLabel(labels, label_name, i) ==
    IF i > Len(labels) THEN 0
    ELSE IF Lower(labels[i].name) = Lower(label_name) THEN i
    ELSE FirstLabel(labels, label_name, i + 1)

\* get_label_id when the listing succeeds: label.get("id") of the first
\* match, None when no label matches.
get_label_id(labels, label_name) ==
    IF FirstLabel(labels, label_name, 1) = 0 THEN "None"
    ELSE labels[FirstLabel(labels, label_name, 1)].id

\* A bug main could have: without `global gmail_service` the assignment
\* binds a local name and the global keeps None.
AssignedLocal(service) == "None"

\* gmail_service = get_gmail_service() under `global gmail_service`.
AssignedGlobal(service) == service

SubIdle ==
    /\ credentials_exist = FALSE
    /\ label_arg = ""
    /\ gmail_labels = <<>>
    /\ gmail_service = "None"
    /\ service_writes = 0
    /\ label_id = "None"
    /\ watch_result = "none"
    /\ sub_events = <<>>
    /\ exit_status = -1
    /\ sub_pc = "idle"

\* The script is started: the module is loaded (gmail_service = None) and
\* the arguments are parsed.
SubInit ==
    /\ credentials_exist \in BOOLEAN
    /\ label_arg \in LabelArgs
    /\ gmail_labels = <<>>
    /\ gmail_service = "None"
    /\ service_writes = 0
    /\ label_id = "None"
    /\ watch_result = "none"
    /\ sub_events = <<>>
    /\ exit_status = -1
    /\ sub_pc = "start"

\* What no step of main changes.
SubFrame ==
    UNCHANGED <<credentials_exist, label_arg>> /\ UNCHANGED <<embedVars, mailVars, authVars, listVars>>

\* sys.exit(1), or an uncaught exception: the process ends with status 1.
Exit1 == sub_pc' = "exited" /\ exit_status' = 1

\* os.path.exists(CREDENTIALS_PATH), chdir, logging.basicConfig.
SubCheckCredentials ==
    /\ sub_pc = "start"
    /\ IF credentials_exist
       THEN sub_pc' = "auth" /\ UNCHANGED exit_status
       ELSE Exit1
    /\ UNCHANGED <<gmail_labels, gmail_service, service_writes, label_id,
                   watch_result, sub_events>>
    /\ SubFrame /\ UNCHANGED pubsubVars

\* 1. gmail_service = get_gmail_service()
SubAuth ==
    /\ sub_pc = "auth"
    /\ sub_events' = Append(sub_events, "auth")
    /\ gmail_service' = AssignedGlobal("service")
    /\ service_writes' = service_writes + 1
    /\ sub_pc' = "label"
    /\ UNCHANGED <<gmail_labels, label_id, watch_result, exit_status>>
    /\ SubFrame /\ UNCHANGED pubsubVars

\* get_gmail_service raises (OAuth flow, token file, build): nothing
\* catches it in main.
SubAuthRaises ==
    /\ sub_pc = "auth"
    /\ sub_events' = Append(sub_events, "auth")
    /\ Exit1
    /\ UNCHANGED <<gmail_labels, gmail_service, service_writes, label_id,
                   watch_result>>
    /\ SubFrame /\ UNCHANGED pubsubVars

\* 2. label_id = get_label_id(gmail_service, args.label); exit when falsy.
SubLabel ==
    /\ sub_pc = "label"
    /\ sub_events' = Append(sub_events, "label_lookup")
    /\ \E labels \in LabelLists :
          /\ gmail_labels' = labels
          /\ label_id' = get_label_id(labels, label_arg)
          /\ IF get_label_id(labels, label_arg) = "None"
             THEN Exit1
             ELSE sub_pc' = "watch" /\ UNCHANGED exit_status
    /\ UNCHANGED <<gmail_service, service_writes, watch_result>>
    /\ SubFrame /\ UNCHANGED pubsubVars

\* labels().list raises: get_label_id logs the error and returns None.
SubLabelRaises ==
    /\ sub_pc = "label"
    /\ sub_events' = Append(sub_events, "label_lookup")
    /\ label_id' = "None"
    /\ Exit1
    /\ UNCHANGED <<gmail_labels, gmail_service, service_writes, watch_result>>
    /\ SubFrame /\ UNCHANGED pubsubVars

\* 3. setup_gmail_watch: users().watch(...).execute() returns.
SubWatch ==
    /\ sub_pc = "watch"
    /\ sub_events' = Append(sub_events, "watch")
    /\ watch_result' = "ok"
    /\ sub_pc' = "listen"
    /\ UNCHANGED <<gmail_labels, gmail_service, service_writes, label_id,
                   exit_status>>
    /\ SubFrame /\ UNCHANGED pubsubVars

\* setup_gmail_watch: the call raises; the except clause calls sys.exit(1).
SubWatchFails ==
    /\ sub_pc = "watch"
    /\ sub_events' = Append(sub_events, "watch")
    /\ watch_result' = "failed"
    /\ Exit1
    /\ UNCHANGED <<gmail_labels, gmail_service, service_writes, label_id>>
    /\ SubFrame /\ UNCHANGED pubsubVars

\* 4. listen_for_pubsub_messages: the service account is loaded and
\* subscriber.subscribe(subscription, callback=pubsub_callback) opens the
\* subscription.
SubListen ==
    /\ sub_pc = "listen"
    /\ sub_events' = Append(sub_events, "listen")
    /\ sub_pc' = "listening"
    /\ UNCHANGED <<gmail_labels, gmail_service, service_writes, label_id,
                   watch_result, exit_status>>
    /\ SubFrame /\ UNCHANGED pubsubVars

\* listen_for_pubsub_messages: the service account file is missing or does
\* not load: sys.exit(1) before the subscription is opened.
SubListenNoAccount ==
    /\ sub_pc = "listen"
    /\ Exit1
    /\ UNCHANGED <<gmail_labels, gmail_service, service_writes, label_id,
                   watch_result, sub_events>>
    /\ SubFrame /\ UNCHANGED pubsubVars

\* streaming_pull_future.result() raises: the future is cancelled, the
\* function and main return.
SubListenFails ==
    /\ sub_pc = "listening"
    /\ sub_pc' = "stopped"
    /\ exit_status' = 0
    /\ UNCHANGED <<gmail_labels, gmail_service, service_writes, label_id,
                   watch_result, sub_events>>
    /\ SubFrame /\ UNCHANGED pubsubVars

\* While the subscription is open the subscriber's threads run the
\* callbacks, one invocation per message, interleaved in any order.
SubCallback ==
    /\ sub_pc = "listening"
    /\ PubsubNext

SubNext ==
    \/ SubCheckCredentials
    \/ SubAuth
    \/ SubAuthRaises
    \/ SubLabel
    \/ SubLabelRaises
    \/ SubWatch
    \/ SubWatchFails
    \/ SubListen
    \/ SubListenNoAccount
    \/ SubListenFails
    \/ SubCallback

(***************************************************************************)
(* Claims about folder_subscribe.py main (checked under SpecSubscribe).    *)
(***************************************************************************)
MainSteps == <<"auth", "label_lookup", "watch", "listen">>

\* Some label of the listing has the requested name, compared in lower
\* case, and the first such label carries an id.
LabelFound ==
    /\ \E i \in 1..Len(gmail_labels) :
          Lower(gmail_labels[i].name) = Lower(label_arg)
    /\ LET first == CHOOSE i \in 1..Len(gmail_labels) :
                        /\ Lower(gmail_labels[i].name) = Lower(label_arg)
                        /\ \A j \in 1..(i - 1) :
                              Lower(gmail_labels[j].name) # Lower(label_arg)
       IN gmail_labels[first].id # "None" /\ gmail_labels[first].id = label_id

SubStarted(step) == \E i \in 1..Len(sub_events) : sub_events[i] = step

\* C13: main runs authentication, label lookup, watch registration and
\* listening in this order, each at most once; the watch is registered only
\* for a label found by case-insensitive name match, and a found label leads
\* to the watch call; listening starts only after the watch call succeeded;
\* a missing credentials file, an unknown label and a failed watch call each
\* end the process with status 1 with no later step started.
C13_MainStepsInOrder ==
    /\ sub_events = SubSeq(MainSteps, 1, Len(sub_events))
    /\ SubStarted("watch") => LabelFound
    /\ (SubStarted("label_lookup") /\ gmail_labels # <<>> /\ LabelFound) =>
           sub_pc # "exited" \/ SubStarted("watch")
    /\ SubStarted("listen") => watch_result = "ok"
    /\ (~credentials_exist /\ sub_pc # "start") =>
           /\ sub_pc = "exited" /\ exit_status = 1
           /\ sub_events = <<>>
    /\ (SubStarted("label_lookup") /\ ~LabelFound) =>
           /\ sub_pc = "exited" /\ exit_status = 1
           /\ sub_events = <<"auth", "label_lookup">>
    /\ watch_result = "failed" =>
           /\ sub_pc = "exited" /\ exit_status = 1
           /\ sub_events = <<"auth", "label_lookup", "watch">>
    /\ sub_pc \in {"listening", "stopped"} <=> SubStarted("listen")
    /\ exit_status = 1 <=> sub_pc = "exited"

\* The label was asked for as "Autoreply" and found under the name
\* "AUTOREPLY", ahead of a second match; the watch succeeded and main listens.
C13_Witness ==
    /\ sub_pc = "listening"
    /\ label_arg = "Autoreply"
    /\ label_id = "L3"
    /\ sub_events = MainSteps

\* Some invocation of pubsub_callback is running.
CallbackRunning(m) == cb_pc[m] \in {"try", "history", "finally"}

\* A step of the invocation for m.
CallbackStep(m) == cb_pc'[m] # cb_pc[m]

\* C17: gmail_service is assigned once, in main before the subscription is
\* opened, and never again; whenever an invocation of pubsub_callback runs,
\* also concurrently with others, the global is not None; a step of one
\* invocation changes nothing that another invocation or main reads.
C17_ServiceSetOnceBeforeCallbacks ==
    /\ [](/\ service_writes <= 1
          /\ gmail_service # "None" <=> service_writes = 1
          /\ SubStarted("listen") => gmail_service # "None"
          /\ \A m \in Messages :
                cb_pc[m] # "pending" => gmail_service # "None")
    /\ [][/\ service_writes' # service_writes =>
                /\ sub_pc = "auth"
                /\ ~SubStarted("listen")
                /\ \A m \in Messages : cb_pc[m] = "pending"
          /\ gmail_service # "None" => gmail_service' = gmail_service
          /\ \A m \in Messages :
                CallbackStep(m) =>
                    /\ gmail_service # "None"
                    /\ UNCHANGED subVars
                    /\ payload' = payload
                    /\ \A o \in Messages \ {m} :
                          /\ cb_pc'[o] = cb_pc[o]
                          /\ exc'[o] = exc[o]
                          /\ acks'[o] = acks[o]
                          /\ events'[o] = events[o]]_vars

\* Two invocations run at the same time, one inside process_history with
\* the service it read, the other still parsing.
C17_Witness ==
    /\ gmail_service = "service"
    /\ cb_pc[1] = "history"
    /\ cb_pc[2] = "try"

(***************************************************************************)
(* gmail/gmail_auth.py and gmail_auth.py: get_credentials.                 *)
(***************************************************************************)
\* A credentials object: whether it carries an access token, whether that
\* token's expiry has passed, whether it has a refresh token, and where the
\* object came from.  some = FALSE stands for None.
Creds(t, e, r, o) ==
    [some |-> TRUE, token |-> t, expired |-> e, refresh_token |-> r, origin |-> o]

NoCreds ==
    [some |-> FALSE, token |-> FALSE, expired |-> FALSE, refresh_token |-> FALSE,
     origin |-> "none"]

\* What a token file can hold: pickled credentials, or a pickled None.
StoredCreds ==
    {Creds(t, e, r, "stored") : t \in BOOLEAN, e \in BOOLEAN, r \in BOOLEAN}
        \cup {NoCreds}

\* creds.valid of google.auth: a token is present and has not expired.
Valid(c) == c.token /\ ~c.expired

\* if not creds or not creds.valid
NeedsLogin(c) == ~c.some \/ ~Valid(c)

\* A bug get_credentials could have: refreshing without a refresh token.
CanRefreshWithoutToken(c) == c.some /\ c.expired

\* if creds and creds.expired and creds.refresh_token
CanRefresh(c) == c.some /\ c.expired /\ c.refresh_token

AuthIdle ==
    /\ token_exists = FALSE
    /\ token_file = NoCreds
    /\ creds = NoCreds
    /\ auth_events = <<>>
    /\ auth_result = NoCreds
    /\ auth_calls = 0
    /\ token_before = NoCreds
    /\ auth_pc = "idle"

\* get_credentials is called: creds = None.
AuthInit ==
    /\ token_exists \in BOOLEAN
    /\ token_file \in (IF token_exists THEN StoredCreds ELSE {NoCreds})
    /\ creds = NoCreds
    /\ auth_events = <<>>
    /\ auth_result = NoCreds
    /\ auth_calls = 1
    /\ token_before = token_file
    /\ auth_pc = "start"

\* if os.path.exists(token_file)
AuthExists ==
    /\ auth_pc = "start"
    /\ auth_pc' = IF token_exists THEN "load" ELSE "check"
    /\ UNCHANGED <<token_exists, token_file, creds, auth_events, auth_result, auth_calls, token_before>>
    /\ UNCHANGED authOthers

\* creds = pickle.load(token)
AuthLoad ==
    /\ auth_pc = "load"
    /\ creds' = token_file
    /\ auth_events' = Append(auth_events, "load")
    /\ auth_pc' = "check"
    /\ UNCHANGED <<token_exists, token_file, auth_result, auth_calls, token_before>>
    /\ UNCHANGED authOthers

\* open or pickle.load raises.
AuthLoadRaises ==
    /\ auth_pc = "load"
    /\ auth_pc' = "raised"
    /\ UNCHANGED <<token_exists, token_file, creds, auth_events, auth_result, auth_calls, token_before>>
    /\ UNCHANGED authOthers

\* The two conditions that choose between returning, refreshing and the
\* OAuth flow.
AuthCheck ==
    /\ auth_pc = "check"
    /\ auth_pc' = IF ~NeedsLogin(creds) THEN "return"
                  ELSE IF CanRefresh(creds) THEN "refresh"
                  ELSE "flow"
    /\ UNCHANGED <<token_exists, token_file, creds, auth_events, auth_result, auth_calls, token_before>>
    /\ UNCHANGED authOthers

\* creds.refresh(Request()): the same object gets a fresh token.
AuthRefresh ==
    /\ auth_pc = "refresh"
    /\ creds' = Creds(TRUE, FALSE, creds.refresh_token, "refreshed")
    /\ auth_events' = Append(auth_events, "refresh")
    /\ auth_pc' = "save"
    /\ UNCHANGED <<token_exists, token_file, auth_result, auth_calls, token_before>>
    /\ UNCHANGED authOthers

\* creds.refresh raises (a revoked refresh token, no network).
AuthRefreshRaises ==
    /\ auth_pc = "refresh"
    /\ auth_events' = Append(auth_events, "refresh")
    /\ auth_pc' = "raised"
    /\ UNCHANGED <<token_exists, token_file, creds, auth_result, auth_calls, token_before>>
    /\ UNCHANGED authOthers

\* flow = InstalledAppFlow.from_client_secrets_file(...);
\* creds = flow.run_local_server(port=8080)
AuthFlow ==
    /\ auth_pc = "flow"
    /\ \E r \in BOOLEAN : creds' = Creds(TRUE, FALSE, r, "flow")
    /\ auth_events' = Append(auth_events, "flow")
    /\ auth_pc' = "save"
    /\ UNCHANGED <<token_exists, token_file, auth_result, auth_calls, token_before>>
    /\ UNCHANGED authOthers

\* The client secrets file does not load or the flow fails.
AuthFlowRaises ==
    /\ auth_pc = "flow"
    /\ auth_events' = Append(auth_events, "flow")
    /\ auth_pc' = "raised"
    /\ UNCHANGED <<token_exists, token_file, creds, auth_result, auth_calls, token_before>>
    /\ UNCHANGED authOthers

\* pickle.dump(creds, token)
AuthSave ==
    /\ auth_pc = "save"
    /\ token_file' = creds
    /\ token_exists' = TRUE
    /\ auth_events' = Append(auth_events, "write")
    /\ auth_pc' = "return"
    /\ UNCHANGED <<creds, auth_result, auth_calls, token_before>>
    /\ UNCHANGED authOthers

\* The token file cannot be opened for writing.
AuthSaveRaises ==
    /\ auth_pc = "save"
    /\ auth_pc' = "raised"
    /\ UNCHANGED <<token_exists, token_file, creds, auth_events, auth_result, auth_calls, token_before>>
    /\ UNCHANGED authOthers

\* return creds
AuthReturn ==
    /\ auth_pc = "return"
    /\ auth_result' = creds
    /\ auth_pc' = "returned"
    /\ UNCHANGED <<token_exists, token_file, creds, auth_events, auth_calls, token_before>>
    /\ UNCHANGED authOthers

\* A later run calls get_credentials again: the token file is as the last
\* call left it, except that its token may have expired in the meantime.
AuthCallAgain ==
    /\ auth_pc = "returned"
    /\ auth_calls < MaxCalls
    /\ auth_calls' = auth_calls + 1
    /\ \E e \in BOOLEAN :
          token_file' = IF token_file.some
                        THEN [token_file EXCEPT !.expired = @ \/ e,
                                                !.origin = "stored"]
                        ELSE token_file
    /\ token_before' = token_file'
    /\ creds' = NoCreds
    /\ auth_events' = <<>>
    /\ auth_result' = NoCreds
    /\ auth_pc' = "start"
    /\ UNCHANGED token_exists
    /\ UNCHANGED authOthers

AuthNext ==
    \/ AuthExists
    \/ AuthLoad
    \/ AuthLoadRaises
    \/ AuthCheck
    \/ AuthRefresh
    \/ AuthRefreshRaises
    \/ AuthFlow
    \/ AuthFlowRaises
    \/ AuthSave
    \/ AuthSaveRaises
    \/ AuthReturn
    \/ AuthCallAgain

(***************************************************************************)
(* Claims about get_credentials (checked under SpecAuth).                  *)
(***************************************************************************)
AuthDid(e) == \E i \in 1..Len(auth_events) : auth_events[i] = e

\* The token file held valid credentials when the call began.
StoredValid == token_before.some /\ token_before.token /\ ~token_before.expired

\* The token file held expired credentials with a refresh token.
StoredRefreshable ==
    token_before.some /\ token_before.expired /\ token_before.refresh_token

\* The call is past the choice between refreshing and the OAuth flow.
AuthObtained == auth_pc \in {"save", "return", "returned"}

\* C14: valid stored credentials are returned with no refresh, no OAuth
\* flow and no write of the token file; expired stored credentials with a
\* refresh token are refreshed and the flow is not run; in every other case
\* the flow is run; after a refresh or a flow the resulting credentials are
\* written to the token file before they are returned.
C14_StoredRefreshedOrFlow ==
    /\ \A e \in {"load", "refresh", "flow", "write"} :
          Cardinality({i \in 1..Len(auth_events) : auth_events[i] = e}) <= 1
    /\ StoredValid =>
          /\ ~AuthDid("refresh") /\ ~AuthDid("flow") /\ ~AuthDid("write")
          /\ token_file = token_before
          /\ auth_pc = "returned" => auth_result = token_before
    /\ StoredRefreshable =>
          /\ ~AuthDid("flow")
          /\ AuthObtained => AuthDid("refresh")
    /\ (~StoredValid /\ ~StoredRefreshable) =>
          /\ ~AuthDid("refresh")
          /\ AuthObtained => AuthDid("flow")
    /\ (auth_pc = "returned" /\ (AuthDid("refresh") \/ AuthDid("flow"))) =>
          /\ auth_events[Len(auth_events)] = "write"
          /\ token_file = auth_result
          /\ token_exists
          /\ auth_result.origin = IF AuthDid("refresh") THEN "refreshed" ELSE "flow"
    /\ AuthDid("write") => AuthDid("refresh") \/ AuthDid("flow")
    /\ auth_pc = "returned" => auth_result = creds /\ auth_result.some

\* A second run finds the credentials of the first run's OAuth flow expired,
\* refreshes them and writes them back.
C14_Witness ==
    /\ auth_calls = 2
    /\ auth_pc = "returned"
    /\ auth_events = <<"load", "refresh", "write">>
    /\ token_file.origin = "refreshed"

(***************************************************************************)
(* gmail/read.py and read.py: list_filtered_emails.                        *)
(* The listing the server holds for the query is a sequence of result      *)
(* pages; page k carries a nextPageToken exactly when a page k + 1 exists. *)
(* A page may carry no messages.  Message ids are numbered in listing      *)
(* order.                                                                  *)
(***************************************************************************)
\* The listings: the number of messages of each page.
Listings == UNION {[1..n -> 0..MaxPageSize] : n \in 1..MaxPages}

\* The number of messages on the pages before page k.
RECURSIVE MessagesBefore(_, _)
MessagesBefore(listing, k) ==
    IF k <= 1 THEN 0
    ELSE MessagesBefore(listing, k - 1) + listing[k - 1]

\* response.get("messages", []) of page k: the ids, in listing order.
PageMessages(listing, k) ==
    [i \in 1..listing[k] |-> MessagesBefore(listing, k) + i]

\* response.get("nextPageToken") of page k is truthy.
HasNextPageToken(listing, k) == k < Len(listing)

\* The dictionary get_message_details returns for a message id.
Details(id) == [id |-> id]

\* A bug the except clause could have: the same message is tried again.
RetriedAfterFailure(pos) == pos

\* except Exception: the error is logged and the for loop moves on to the
\* next message.
AfterFailure(pos) == pos + 1

ListIdle ==
    /\ pages = <<>>
    /\ page_no = 0
    /\ page_msgs = <<>>
    /\ msg_pos = 0
    /\ emails = <<>>
    /\ failed = {}
    /\ list_calls = <<>>
    /\ list_pc = "idle"

\* list_filtered_emails(service, query) is called: emails = [].
ListInit ==
    /\ pages \in Listings
    /\ page_no = 0
    /\ page_msgs = <<>>
    /\ msg_pos = 0
    /\ emails = <<>>
    /\ failed = {}
    /\ list_calls = <<>>
    /\ list_pc = "start"

Call(op, arg, ok) == [op |-> op, arg |-> arg, ok |-> ok]

\* The first messages().list(...).execute() and response.get("messages", []).
ListFirstPage ==
    /\ list_pc = "start"
    /\ page_no' = 1
    /\ page_msgs' = PageMessages(pages, 1)
    /\ list_calls' = Append(list_calls, Call("list", 1, TRUE))
    /\ list_pc' = "while"
    /\ UNCHANGED <<pages, msg_pos, emails, failed>>
    /\ UNCHANGED listOthers

\* The first list call raises: the exception leaves the function.
ListFirstPageRaises ==
    /\ list_pc = "start"
    /\ list_calls' = Append(list_calls, Call("list", 1, FALSE))
    /\ list_pc' = "raised"
    /\ UNCHANGED <<pages, page_no, page_msgs, msg_pos, emails, failed>>
    /\ UNCHANGED listOthers

\* while messages: an empty list ends the loop and emails is returned.
ListWhile ==
    /\ list_pc = "while"
    /\ IF page_msgs = <<>>
       THEN list_pc' = "returned" /\ UNCHANGED msg_pos
       ELSE list_pc' = "for" /\ msg_pos' = 1
    /\ UNCHANGED <<pages, page_no, page_msgs, emails, failed, list_calls>>
    /\ UNCHANGED listOthers

\* Where the for loop goes after the message at msg_pos.
AfterMessage ==
    IF msg_pos = Len(page_msgs)
    THEN list_pc' = "token" /\ UNCHANGED msg_pos
    ELSE list_pc' = "for" /\ msg_pos' = msg_pos + 1

\* One iteration of `for msg in messages`: the details are retrieved and
\* appended.
ListGet ==
    /\ list_pc = "for"
    /\ emails' = Append(emails, Details(page_msgs[msg_pos]))
    /\ list_calls' = Append(list_calls, Call("get", page_msgs[msg_pos], TRUE))
    /\ AfterMessage
    /\ UNCHANGED <<pages, page_no, page_msgs, failed>>
    /\ UNCHANGED listOthers

\* One iteration in which get_message_details raises.
ListGetFails ==
    /\ list_pc = "for"
    /\ failed' = failed \cup {page_msgs[msg_pos]}
    /\ list_calls' = Append(list_calls, Call("get", page_msgs[msg_pos], FALSE))
    /\ IF msg_pos = Len(page_msgs)
       THEN list_pc' = "token" /\ UNCHANGED msg_pos
       ELSE list_pc' = "for" /\ msg_pos' = AfterFailure(msg_pos)
    /\ UNCHANGED <<pages, page_no, page_msgs, emails>>
    /\ UNCHANGED listOthers

\* page_token = response.get("nextPageToken"): the next page is listed, or
\* the loop is left and emails is returned.
ListNextPage ==
    /\ list_pc = "token"
    /\ IF HasNextPageToken(pages, page_no)
       THEN /\ page_no' = page_no + 1
            /\ page_msgs' = PageMessages(pages, page_no + 1)
            /\ list_calls' = Append(list_calls, Call("list", page_no + 1, TRUE))
            /\ list_pc' = "while"
       ELSE /\ list_pc' = "returned"
            /\ UNCHANGED <<page_no, page_msgs, list_calls>>
    /\ UNCHANGED <<pages, msg_pos, emails, failed>>
    /\ UNCHANGED listOthers

\* The list call for the next page raises: the exception leaves the function.
ListNextPageRaises ==
    /\ list_pc = "token"
    /\ HasNextPageToken(pages, page_no)
    /\ list_calls' = Append(list_calls, Call("list", page_no + 1, FALSE))
    /\ list_pc' = "raised"
    /\ UNCHANGED <<pages, page_no, page_msgs, msg_pos, emails, failed>>
    /\ UNCHANGED listOthers

ListNext ==
    \/ ListFirstPage
    \/ ListFirstPageRaises
    \/ ListWhile
    \/ ListGet
    \/ ListGetFails
    \/ ListNextPage
    \/ ListNextPageRaises

(***************************************************************************)
(* Claims about list_filtered_emails (checked under SpecList).             *)
(***************************************************************************)
\* The ids of all messages of the listing, in listing order.
AllMessages == [i \in 1..MessagesBefore(pages, Len(pages) + 1) |-> i]

NotFailed(id) == id \notin failed

\* C15: the result holds, in listing order, the details of every message of
\* every page reachable by following nextPageToken from the first page,
\* except the messages whose detail retrieval raised, which do not stop the
\* listing; no page is listed twice and none beyond the page that carries
\* no nextPageToken.
C15_AllPagesListed ==
    /\ page_no <= Len(pages)
    /\ list_pc = "returned" =>
           emails = [i \in 1..Len(SelectSeq(AllMessages, NotFailed)) |->
                        Details(SelectSeq(AllMessages, NotFailed)[i])]

EmbedIdle == ChunkIdle /\ DedupIdle /\ StoreIdle /\ QueryIdle /\ ChatIdle

GmailIdle == MailIdle /\ SubIdle /\ AuthIdle /\ ListIdle

\* Each script runs alone: the other scripts' variables keep their idle values.
InitChunk == ChunkInit /\ DedupIdle /\ StoreIdle /\ QueryIdle /\ ChatIdle /\ PubsubIdle /\ GmailIdle

SpecChunk == InitChunk /\ [][ChunkNext]_vars

InitDedup == DedupInit /\ ChunkIdle /\ StoreIdle /\ QueryIdle /\ ChatIdle /\ PubsubIdle /\ GmailIdle

SpecDedup == InitDedup /\ [][DedupNext]_vars

InitStore == StoreInit /\ ChunkIdle /\ DedupIdle /\ QueryIdle /\ ChatIdle /\ PubsubIdle /\ GmailIdle

SpecStore == InitStore /\ [][StoreNext]_vars

InitQuery == QueryInit /\ ChunkIdle /\ DedupIdle /\ StoreIdle /\ ChatIdle /\ PubsubIdle /\ GmailIdle

SpecQuery == InitQuery /\ [][QueryNext]_vars

InitChat == ChatInit /\ ChunkIdle /\ DedupIdle /\ StoreIdle /\ QueryIdle /\ PubsubIdle /\ GmailIdle

SpecChat == InitChat /\ [][ChatNext]_vars

InitPubsub ==
    PubsubInit /\ EmbedIdle /\ GmailIdle

SpecPubsub == InitPubsub /\ [][PubsubNext]_vars

InitMail == MailInit /\ EmbedIdle /\ PubsubIdle /\ SubIdle /\ AuthIdle /\ ListIdle

SpecMail == InitMail /\ [][MailNext]_vars

InitSubscribe ==
    SubInit /\ PubsubInit /\ EmbedIdle /\ MailIdle /\ AuthIdle /\ ListIdle

SpecSubscribe == InitSubscribe /\ [][SubNext]_vars

InitAuth == AuthInit /\ EmbedIdle /\ PubsubIdle /\ MailIdle /\ SubIdle /\ ListIdle

SpecAuth == InitAuth /\ [][AuthNext]_vars

InitList ==
    ListInit /\ EmbedIdle /\ PubsubIdle /\ MailIdle /\ SubIdle /\ AuthIdle

SpecList == InitList /\ [][ListNext]_vars

====
